---- MODULE Spec2Model ----
(***************************************************************************)
(* A model of the DEF NETS pipeline of lap: the net model builder of       *)
(* net_parsing.py (wildcard normalisation, layer tags, flattened routing   *)
(* points) and the neighbour matcher of nets_finder.py (per-layer index,   *)
(* the three grouping modes, the pair list and its export).                *)
(*                                                                         *)
(* Six specifications share the module:                                    *)
(*   SpecNormalize  RoutingPoint.normalize applied repeatedly to one chain *)
(*   SpecBuild      NetTransformer.net_statement applied to one statement  *)
(*   SpecParse      the Lark parser of NET_GRAMMAR applied to a section    *)
(*   SpecWalk       walk_routing_element applied to one RoutingPoint       *)
(*   SpecQuery      find_minimum_distance_across_layers, query by query    *)
(*   Spec           main() of nets_finder.py, from reading to export       *)
(***************************************************************************)
EXTENDS Integers, Sequences, FiniteSets, TLC

VARIABLES
    \* SpecNormalize
    rp,                \* the RoutingPoint being normalised
    rp_parsed,         \* the chain as the parser produced it
    rp_once,           \* the chain as it was after the first normalize()
    passes,            \* number of normalize() calls made so far
    \* SpecBuild
    tree,              \* the parsed net statement handed to net_statement
    built,             \* the Net returned by net_statement
    bpc,               \* "parsed" before net_statement ran, "built" after
    \* SpecParse
    source,            \* the NETS section as written: a list of statements
    parse_result,      \* what the Lark parser made of it
    \* SpecWalk
    walk_element,      \* the RoutingPoint handed to walk_routing_element
    walked,            \* list(walk_routing_element(walk_element)), <<>> before
    \* SpecQuery (find_minimum_distance_across_layers)
    q_nets,            \* the nets the index was built from
    q_mapping,         \* layer_mapping
    q_net,             \* net, as its position in q_nets
    q_interpolate,     \* interpolate
    q_pc,              \* position in the function
    q_element,         \* position of routing_point in net.routing_points
    q_point,           \* position of point in points
    q_size,            \* query_size
    q_indices,         \* indices[0] of the last tree.query
    q_best,            \* minimum_distance, ..._net_index, ..._net_layer
    q_result,          \* what the function returned or raised
    \* Spec (main of nets_finder.py)
    pc,                \* position in main()
    err,               \* the exception that ended the run, "" if none
    mode,              \* cli_arguments.grouping_mode
    unit,              \* cli_arguments.functional_unit, a sequence of characters
    def_body,          \* the net statements the input file holds
    def_file,          \* the text of the input file, as a sequence of tokens
    data,              \* what main() has read of the file so far
    nets,              \* parse_nets_section(data)
    stress_target_nets,
    layer_mapping,     \* metal layer -> sequence of (net, x, y)
    has_trees,         \* distance_trees was assigned
    next_net,          \* index of the net the matching loop handles next
    closest_net,       \* the Net the last matcher call returned, as its
                       \* position in stress_target_nets (0: none yet)
    metal_layer,       \* layer the last matcher call returned
    neighbouring_nets, \* list of "net,neighbour,layer" strings
    output             \* lines written to the output file

vars == <<rp, rp_parsed, rp_once, passes, tree, built, bpc,
          source, parse_result,
          walk_element, walked,
          q_nets, q_mapping, q_net, q_interpolate, q_pc, q_element, q_point,
          q_size, q_indices, q_best, q_result,
          pc, err, mode, unit, def_body, def_file, data, nets,
          stress_target_nets,
          layer_mapping, has_trees, next_net, closest_net, metal_layer,
          neighbouring_nets, output>>

normVars  == <<rp, rp_parsed, rp_once, passes>>
buildVars == <<tree, built, bpc>>
parseVars == <<source, parse_result>>
walkVars  == <<walk_element, walked>>
queryVars == <<q_nets, q_mapping, q_net, q_interpolate, q_pc, q_element,
               q_point, q_size, q_indices, q_best, q_result>>
mainVars  == <<pc, err, mode, unit, def_body, def_file, data, nets,
          stress_target_nets,
               layer_mapping, has_trees, next_net, closest_net, metal_layer,
               neighbouring_nets, output>>

(***************************************************************************)
(* Geometry primitives (net_parsing.py).  A coordinate is an int or the    *)
(* string '*'; the two are kept apart by a tag so that they can be         *)
(* compared.  ext, mask and virtual never influence normalisation or       *)
(* matching and are left out.                                              *)
(***************************************************************************)
Star == [star |-> TRUE]
Num(n) == [int |-> n]

Point(x, y) == [kind |-> "Point", x |-> x, y |-> y]
Via(name) == [kind |-> "Via", name |-> name]
Rect(x1, y1, x2, y2) == [kind |-> "Rect", x1 |-> x1, y1 |-> y1, x2 |-> x2, y2 |-> y2]

None == "None"

\* A dataclass field that is a list or None is a record field that is
\* present or absent: "x is None" reads  ~IsSet(obj, "x").
IsSet(obj, field) == field \in DOMAIN obj

\* RoutingPoint(starting_point, trailing_modules, metal_layer=None), points=None
RoutingPoint(start, others) ==
    [starting_point |-> start, trailing_modules |-> others, metal_layer |-> None]

(***************************************************************************)
(* RoutingPoint.normalize                                                  *)
(***************************************************************************)
\* if elem.x == '*': elem.set_x(prev_x)
fill_keep(c, prev) == c
fill(c, prev) == IF c = Star THEN prev ELSE c

\* prev_x = elem.x, read after the element was filled
carry_stale(parsed, filled) == parsed
carry(parsed, filled) == filled

\* an element that is not a Point leaves prev_x and prev_y as they are
keep_forgotten(prev) == Star
keep(prev) == prev

RECURSIVE normalize_from(_, _, _, _)
normalize_from(mods, k, prev_x, prev_y) ==
    IF k > Len(mods) THEN mods
    ELSE IF mods[k].kind = "Point"
         THEN LET x == fill(mods[k].x, prev_x)
                  y == fill(mods[k].y, prev_y)
                  elem == [mods[k] EXCEPT !.x = x, !.y = y]
              IN normalize_from([mods EXCEPT ![k] = elem], k + 1,
                                carry(mods[k].x, x), carry(mods[k].y, y))
         ELSE normalize_from(mods, k + 1, keep(prev_x), keep(prev_y))

normalize(r) ==
    [r EXCEPT !.trailing_modules =
        normalize_from(@, 1, r.starting_point.x, r.starting_point.y)]

\* RoutingPoint.set_metal_layer
set_metal_layer(r, layer) == [r EXCEPT !.metal_layer = layer]

\* RoutingPoint._set_point_list
RECURSIVE points_of(_)
points_of(mods) ==
    IF mods = <<>> THEN <<>>
    ELSE IF Head(mods).kind = "Point"
         THEN <<Head(mods)>> \o points_of(Tail(mods))
         ELSE points_of(Tail(mods))

RoutingPoint_set_point_list(r) ==
    [starting_point |-> r.starting_point,
     trailing_modules |-> r.trailing_modules,
     metal_layer |-> r.metal_layer,
     points |-> <<r.starting_point>> \o points_of(r.trailing_modules)]

(***************************************************************************)
(* NetWiring and Net                                                       *)
(***************************************************************************)
NetWiring(routing_points) == [routing_points |-> routing_points]

\* prev_x, prev_y set once per wiring: a chain starts from the anchor of
\* the chain before it
NetWiring_normalize_running(w) ==
    [w EXCEPT !.routing_points =
        [i \in DOMAIN @ |->
            IF i = 1 THEN normalize(@[i])
            ELSE [@[i] EXCEPT !.trailing_modules =
                    normalize_from(@, 1, w.routing_points[i - 1].starting_point.x,
                                   w.routing_points[i - 1].starting_point.y)]]]

\* for routing_point in self.routing_points: routing_point.normalize()
NetWiring_normalize(w) ==
    [w EXCEPT !.routing_points = [i \in DOMAIN @ |-> normalize(@[i])]]

NetHeader(net_name) == [net_name |-> net_name]

\* `if self.regular_wirings:`
HasWirings(net) ==
    IsSet(net, "regular_wirings") /\ Len(net.regular_wirings) > 0

get_name(net) == net.header.net_name

Net_normalize(net) ==
    IF HasWirings(net)
    THEN [net EXCEPT !.regular_wirings =
            [i \in DOMAIN @ |-> NetWiring_normalize(@[i])]]
    ELSE net

Net_set_point_list(net) ==
    IF HasWirings(net)
    THEN [net EXCEPT !.regular_wirings =
            [i \in DOMAIN @ |->
                [@[i] EXCEPT !.routing_points =
                    [j \in DOMAIN @ |-> RoutingPoint_set_point_list(@[j])]]]]
    ELSE net

RECURSIVE flatten(_)
flatten(wirings) ==
    IF wirings = <<>> THEN <<>>
    ELSE Head(wirings).routing_points \o flatten(Tail(wirings))

Net_set_routing_points(net) ==
    LET tmp == IF HasWirings(net) THEN flatten(net.regular_wirings) ELSE <<>>
    IN IF IsSet(net, "regular_wirings")
       THEN [header |-> net.header, regular_wirings |-> net.regular_wirings,
             routing_points |-> tmp]
       ELSE [header |-> net.header, routing_points |-> tmp]

(***************************************************************************)
(* NetTransformer: the callbacks Lark runs bottom-up over a parsed         *)
(* statement.  A parsed statement is                                       *)
(*   [header, regular_wirings : Seq of                                     *)
(*      [layer, routing_point, news : Seq of [layer, routing_point]]]      *)
(* where a routing_point is [point, trailing_options].                     *)
(***************************************************************************)
routing_point(t) == RoutingPoint(t.point, t.trailing_options)

new_statement(t) == set_metal_layer(routing_point(t.routing_point), t.layer)

\* routing_points[0].set_metal_layer(initial_metal_layer)
tag_first_skip(routing_points, initial_metal_layer) == routing_points
tag_first(routing_points, initial_metal_layer) ==
    [routing_points EXCEPT ![1] = set_metal_layer(@, initial_metal_layer)]

regular_wiring(t) ==
    LET routing_points ==
            <<routing_point(t.routing_point)>>
                \o [i \in DOMAIN t.news |-> new_statement(t.news[i])]
    IN NetWiring(tag_first(routing_points, t.layer))

\* _has_attribute(list, NetWiring): the list of wirings, None when it is empty
Net(header, wirings) ==
    IF Len(wirings) > 0
    THEN [header |-> header, regular_wirings |-> wirings]
    ELSE [header |-> header]

net_statement(t) ==
    LET wirings == [i \in DOMAIN t.regular_wirings |->
                        regular_wiring(t.regular_wirings[i])]
        net == Net(NetHeader(t.header), wirings)
    IN Net_set_routing_points(Net_set_point_list(Net_normalize(net)))

parse_nets_section(text) == [i \in DOMAIN text |-> net_statement(text[i])]

(***************************************************************************)
(* nets_finder.py.  Net names are sequences of characters, so that the     *)
(* substring test of the filter can be computed; Str turns one into the    *)
(* string an f-string produces.  Coordinates reaching the matcher are      *)
(* integers (Num).  Distances are compared as squared integer distances:   *)
(* sqrt is monotonic and exact on the small integers used here.            *)
(***************************************************************************)
RECURSIVE Str(_)
Str(chars) == IF chars = <<>> THEN "" ELSE Head(chars) \o Str(Tail(chars))

\* hay.startswith(needle) instead
ContainsAtStart(needle, hay) ==
    Len(needle) <= Len(hay) /\ SubSeq(hay, 1, Len(needle)) = needle

\* `needle in hay` on str
Contains(needle, hay) ==
    \E i \in 0..(Len(hay) - Len(needle)) :
        SubSeq(hay, i + 1, i + Len(needle)) = needle

\* list.index(x): position of the first element equal to x
index_of(list, x) ==
    CHOOSE i \in DOMAIN list :
        list[i] = x /\ \A j \in 1..(i - 1) : list[j] # x

XY(point) == <<point.x.int, point.y.int>>

Dist2(a, b) == (a[1] - b[1]) * (a[1] - b[1]) + (a[2] - b[2]) * (a[2] - b[2])

(***************************************************************************)
(* walk_routing_element.  The walk computes in floating point; the model   *)
(* computes the same values with integers.  With L2 the squared length of  *)
(* the segment and d the difference of one coordinate, the k-th `current`  *)
(* stands at start + k * step * d / sqrt(L2), at distance k * step from    *)
(* the start.  For an axis-parallel segment every value is an integer and  *)
(* exact in floating point; for a segment whose length is irrational the   *)
(* compared quantities differ by far more than the rounding error.  The    *)
(* inputs hold no other segment.                                           *)
(***************************************************************************)
WalkStep == 10

Abs(n) == IF n < 0 THEN -n ELSE n

\* if _distance(start, current) >= distance: break
walk_done_late(k, L2) == (k * WalkStep) * (k * WalkStep) > L2
walk_done(k, L2) == (k * WalkStep) * (k * WalkStep) >= L2

\* floor(k * step * |d| / sqrt(L2))
floor_offset(k, d, L2) ==
    LET t2 == (k * WalkStep) * (k * WalkStep) * d * d
    IN CHOOSE m \in 0..Abs(d) : m * m * L2 <= t2 /\ (m + 1) * (m + 1) * L2 > t2

\* int(current[i]): truncation towards zero of s + k * step * d / sqrt(L2)
int_current(s, k, d, L2) ==
    LET m == floor_offset(k, d, L2)
        exact == m * m * L2 = (k * WalkStep) * (k * WalkStep) * d * d
        floor == IF d >= 0 THEN s + m
                 ELSE s - m - (IF exact THEN 0 ELSE 1)
    IN IF floor >= 0 \/ exact THEN floor ELSE floor + 1

RECURSIVE walk_from(_, _, _)
walk_from(start, end, k) ==
    LET L2 == Dist2(start, end)
    IN IF walk_done(k, L2) THEN <<>>
       ELSE <<<<int_current(start[1], k, end[1] - start[1], L2),
                int_current(start[2], k, end[2] - start[2], L2)>>>>
            \o walk_from(start, end, k + 1)

walk_routing_element(element) ==
    IF Len(element.points) = 1 THEN <<XY(element.points[1])>>
    ELSE LET start == XY(element.points[1])
             end == XY(element.points[2])
         IN <<start>> \o walk_from(start, end, 1) \o <<end>>

(***************************************************************************)
(* points_per_metal_layer.  layer_mapping maps each layer that received a  *)
(* point to its list of (net, x, y); net is the position of the Net in     *)
(* net_list (the reference the tuple holds).  The KDTree of a layer is     *)
(* determined by that list and is queried through kd_query.                *)
(***************************************************************************)
\* only the first point of the element
element_points_first(element, interpolate) == <<XY(element.points[1])>>

\* for point in element.points: points += [point]; the for/else branch is
\* `pass`, whatever interpolate is
element_points(element, interpolate) ==
    [i \in DOMAIN element.points |-> XY(element.points[i])]

\* pieces[lo] \o ... \o pieces[hi].  The range is halved at every level:
\* the lists of a layer hold hundreds of entries.
RECURSIVE concat(_, _, _)
concat(pieces, lo, hi) ==
    IF lo > hi THEN <<>>
    ELSE IF lo = hi THEN pieces[lo]
    ELSE LET mid == (lo + hi) \div 2
         IN concat(pieces, lo, mid) \o concat(pieces, mid + 1, hi)

\* the (net, layer, x, y) of the points of element e of net n
element_entries(net_list, n, e, interpolate) ==
    LET element == net_list[n].routing_points[e]
        pts == element_points(element, interpolate)
    IN [i \in DOMAIN pts |->
          [net |-> n, layer |-> element.metal_layer,
           x |-> pts[i][1], y |-> pts[i][2]]]

\* for element in net.routing_points
net_entries(net_list, n, interpolate) ==
    concat([e \in DOMAIN net_list[n].routing_points |->
               element_entries(net_list, n, e, interpolate)],
           1, Len(net_list[n].routing_points))

\* for net in net_list: all entries in the order the loops append them
all_entries(net_list, interpolate) ==
    concat([n \in DOMAIN net_list |-> net_entries(net_list, n, interpolate)],
           1, Len(net_list))

\* metal_layer_mapping[element.metal_layer].append((net, point.x, point.y))
select_layer(entries, layer) ==
    LET on_layer(entry) == entry.layer = layer
    IN CHOOSE list \in
          {[i \in DOMAIN selected |->
               [net |-> selected[i].net, x |-> selected[i].x,
                y |-> selected[i].y]] :
             selected \in {SelectSeq(entries, on_layer)}} : TRUE

\* A variant without the assertion.
points_assertion_dropped(net_list) == TRUE

\* assert(len(element.points) <= 2)
points_assertion(net_list) ==
    \A n \in DOMAIN net_list :
        \A e \in DOMAIN net_list[n].routing_points :
            Len(net_list[n].routing_points[e].points) <= 2

points_per_metal_layer(net_list, interpolate) ==
    CHOOSE mapping \in
        {[l \in {entries[i].layer : i \in DOMAIN entries} |->
             select_layer(entries, l)] :
           entries \in {all_entries(net_list, interpolate)}} : TRUE

(***************************************************************************)
(* KDTree.query(point, k): the k nearest entries of a layer, nearest       *)
(* first.  sklearn does not fix the order of entries at equal distance:    *)
(* tie picks ascending or descending index order among them.               *)
(***************************************************************************)
TieOrders == {"ascending", "descending"}

\* positions are 0-based, as numpy returns them; the distances are computed
\* once per query and the positions sorted by them
kd_query(entries, point, k, tie) ==
    LET n == Len(entries)
        sorted(d) ==
            LET before(i, j) ==
                    \/ d[i] < d[j]
                    \/ d[i] = d[j] /\ (IF tie = "ascending" THEN i < j ELSE i > j)
            IN SortSeq([i \in 1..n |-> i], before)
    IN CHOOSE indices \in
          {[r \in 1..k |-> order[r] - 1] :
             order \in {sorted(d) : d \in
                 {[i \in 1..n |->
                     Dist2(point, <<entries[i].x, entries[i].y>>)]}}} : TRUE

(***************************************************************************)
(* find_minimum_distance_across_layers                                     *)
(***************************************************************************)
Inf == -1
NoIndex == -1
QueryStart == 100
QueryIncrement == 100

\* if distance < minimum_distance
closer_reversed(distance, minimum_distance) ==
    minimum_distance = Inf \/ distance > minimum_distance
closer_or_equal(distance, minimum_distance) ==
    minimum_distance = Inf \/ distance <= minimum_distance
closer(distance, minimum_distance) ==
    minimum_distance = Inf \/ distance < minimum_distance

\* also skips the points of nets the matching loop has handled already
is_own_point_or_handled(net_list, net, entry) ==
    \/ get_name(net_list[net]) = get_name(net_list[entry.net])
    \/ entry.net < next_net

\* if net.get_name() == layer_mapping[layer][index][0].get_name(): continue
is_own_point_never(net_list, net, entry) == FALSE
is_own_point(net_list, net, entry) ==
    get_name(net_list[net]) = get_name(net_list[entry.net])

\* the body of `for index, distance in zip(indices[0], distances[0])`
scan_result(net_list, net, entries, layer, point, index, best) ==
    LET entry == entries[index + 1]
        distance == Dist2(point, <<entry.x, entry.y>>)
    IN IF is_own_point(net_list, net, entry) THEN best
       ELSE IF closer(distance, best.minimum_distance)
            THEN [minimum_distance |-> distance, index |-> index,
                  layer |-> layer]
            ELSE best

\* the loop over indices[lo..hi], in order; the range is halved at every
\* level and the second half starts from what the first half found
RECURSIVE scan_range(_, _, _, _, _, _, _, _, _)
scan_range(net_list, net, entries, layer, point, indices, lo, hi, best) ==
    IF lo > hi THEN best
    ELSE IF lo = hi
         THEN scan_result(net_list, net, entries, layer, point, indices[lo], best)
         ELSE LET mid == (lo + hi) \div 2
              IN CHOOSE found \in
                    {scan_range(net_list, net, entries, layer, point, indices,
                                mid + 1, hi, first) :
                       first \in {scan_range(net_list, net, entries, layer,
                                             point, indices, lo, mid, best)}} :
                    TRUE

\* for index, distance in zip(indices[0], distances[0])
scan_results(net_list, net, entries, layer, point, indices, best) ==
    scan_range(net_list, net, entries, layer, point, indices, 1, Len(indices),
               best)

Min(a, b) == IF a <= b THEN a ELSE b

\* query_size = min(100, max_query_size)
first_query_size_whole(max_query_size) == max_query_size
first_query_size(max_query_size) == Min(QueryStart, max_query_size)

\* query_size += 100; query_size = min(query_size, max_query_size)
next_query_size_uncapped(query_size, max_query_size) ==
    query_size + QueryIncrement
next_query_size_doubled(query_size, max_query_size) ==
    Min(2 * query_size, max_query_size)
next_query_size(query_size, max_query_size) ==
    Min(query_size + QueryIncrement, max_query_size)

\* while query_size <= max_query_size
RECURSIVE query_loop(_, _, _, _, _, _, _, _)
query_loop(net_list, net, entries, layer, point, query_size, tie, best) ==
    LET max_query_size == Len(entries)
        found == scan_results(net_list, net, entries, layer, point,
                              kd_query(entries, point, query_size, tie), best)
    IN IF query_size > max_query_size THEN best
       ELSE IF found.index # NoIndex THEN found
       ELSE IF query_size = max_query_size THEN found
       ELSE query_loop(net_list, net, entries, layer, point,
                       next_query_size(query_size, max_query_size), tie, found)

\* for point in points
RECURSIVE scan_points(_, _, _, _, _, _, _)
scan_points(net_list, net, entries, layer, points, tie, best) ==
    IF points = <<>> THEN best
    ELSE scan_points(net_list, net, entries, layer, Tail(points), tie,
                     query_loop(net_list, net, entries, layer, Head(points),
                                first_query_size(Len(entries)), tie, best))

\* points of a routing point of the target: its points list, or the walk
query_points(routing_element, interpolate) ==
    IF interpolate THEN walk_routing_element(routing_element)
    ELSE [i \in DOMAIN routing_element.points |-> XY(routing_element.points[i])]

\* for routing_point in net.routing_points
RECURSIVE scan_routing_points(_, _, _, _, _, _, _)
scan_routing_points(net_list, net, mapping, interpolate, e, tie, best) ==
    IF e > Len(net_list[net].routing_points) THEN best
    ELSE LET element == net_list[net].routing_points[e]
             layer == element.metal_layer
         IN scan_routing_points(net_list, net, mapping, interpolate, e + 1, tie,
                scan_points(net_list, net, mapping[layer], layer,
                            query_points(element, interpolate), tie, best))

\* The result of a matcher call: the Net found (its position) and the
\* layer, or the exception raised.
Found(net, layer) == [ok |-> TRUE, net |-> net, layer |-> layer]
Raised(exception) == [ok |-> FALSE, error |-> exception]

find_minimum_distance_across_layers(net_list, net, mapping, interpolate, tie) ==
    LET best == scan_routing_points(net_list, net, mapping, interpolate, 1, tie,
                    [minimum_distance |-> Inf, index |-> NoIndex,
                     layer |-> None])
    IN IF best.index = NoIndex
       THEN Raised("AssertionError: There is no other net on this layer to match with")
       ELSE Found(mapping[best.layer][best.index + 1].net, best.layer)

(***************************************************************************)
(* find_minimum_distance_for_starting_point                                *)
(***************************************************************************)
\* max instead of min
first_max(candidates, net_list, net) ==
    LET key(o) == Dist2(XY(net_list[net].routing_points[1].starting_point),
                        XY(net_list[o].routing_points[1].starting_point))
    IN candidates[CHOOSE i \in DOMAIN candidates :
                    /\ \A j \in DOMAIN candidates :
                          key(candidates[i]) >= key(candidates[j])
                    /\ \A j \in 1..(i - 1) :
                          key(candidates[j]) < key(candidates[i])]

\* min(list, key): the first element with the smallest key
first_min(candidates, net_list, net) ==
    LET key(o) == Dist2(XY(net_list[net].routing_points[1].starting_point),
                        XY(net_list[o].routing_points[1].starting_point))
    IN candidates[CHOOSE i \in DOMAIN candidates :
                    /\ \A j \in DOMAIN candidates :
                          key(candidates[i]) <= key(candidates[j])
                    /\ \A j \in 1..(i - 1) :
                          key(candidates[j]) > key(candidates[i])]

RECURSIVE others_in_same_layer(_, _, _)
others_in_same_layer(net_list, net, o) ==
    IF o > Len(net_list) THEN <<>>
    ELSE IF /\ net_list[net].routing_points[1].metal_layer
                  = net_list[o].routing_points[1].metal_layer
            /\ index_of(net_list, net_list[o]) # index_of(net_list, net_list[net])
         THEN <<o>> \o others_in_same_layer(net_list, net, o + 1)
         ELSE others_in_same_layer(net_list, net, o + 1)

find_minimum_distance_for_starting_point(net_list, net) ==
    IF \E o \in DOMAIN net_list : Len(net_list[o].routing_points) = 0
    THEN Raised("IndexError: list index out of range")
    ELSE LET other_nets_in_same_layer == others_in_same_layer(net_list, net, 1)
             starting_metal_layer == net_list[net].routing_points[1].metal_layer
         IN IF Len(other_nets_in_same_layer) = 0
            THEN Found(net, starting_metal_layer)
            ELSE LET nearest_node ==
                        first_min(other_nets_in_same_layer, net_list, net)
                 IN Found(nearest_node,
                          net_list[nearest_node].routing_points[1].metal_layer)

(***************************************************************************)
(* Bounded inputs of SpecNormalize and SpecBuild.                          *)
(***************************************************************************)
MaxTrailing == 2
MaxPasses == 2

Coords == {Star, Num(5), Num(7), Num(9)}
Points == {Point(x, y) : x \in Coords, y \in Coords}
Elements == Points \cup {Via("via2_5"), Rect(1, 2, 3, 4)}

SeqsUpTo(S, n) == UNION {[1..m -> S] : m \in 1..n}
Chains == {RoutingPoint(p, t) : p \in Points, t \in SeqsUpTo(Elements, MaxTrailing)}

\* chains with a Via or a Rect between two trailing Points, as in
\* ( 5 5 ) ( * 9 ) via2_5 ( 7 * )
ViaChains ==
    {RoutingPoint(Point(Num(5), Num(5)), <<q, m, r>>) :
        q \in Points, m \in Elements \ Points, r \in Points}

\* SpecBuild: statements of at most MaxChains routing points, each the first
\* of a "+ ROUTED" wiring or a NEW continuation of the wiring before it.
MaxChains == 2
BuildMaxTrailing == 1

Layers == {"metal1", "metal2"}
BuildAnchors == {Point(Num(1), Num(2)), Point(Star, Num(2))}
BuildElements == {Point(Star, Star), Point(Num(3), Star), Via("via1_4")}
BuildChains ==
    {[point |-> p, trailing_options |-> t] :
        p \in BuildAnchors, t \in SeqsUpTo(BuildElements, BuildMaxTrailing)}

Clauses == [layer : Layers, routing_point : BuildChains, new : BOOLEAN]
ClauseLists ==
    {<<>>} \cup {c \in SeqsUpTo(Clauses, MaxChains) : ~c[1].new}

RECURSIVE group(_, _)
group(clauses, wirings) ==
    IF clauses = <<>> THEN wirings
    ELSE LET c == Head(clauses)
         IN IF c.new
            THEN group(Tail(clauses),
                       [wirings EXCEPT ![Len(wirings)].news =
                          Append(@, [layer |-> c.layer,
                                     routing_point |-> c.routing_point])])
            ELSE group(Tail(clauses),
                       Append(wirings, [layer |-> c.layer,
                                        routing_point |-> c.routing_point,
                                        news |-> <<>>]))

Statement(name, clauses) ==
    [header |-> name, regular_wirings |-> group(clauses, <<>>)]

NormIdle ==
    /\ rp = RoutingPoint(Point(Num(0), Num(0)), <<Via("via")>>)
    /\ rp_parsed = rp
    /\ rp_once = rp
    /\ passes = 0

BuildIdle ==
    /\ tree = <<>>
    /\ built = <<>>
    /\ bpc = "idle"

ParseIdle ==
    /\ source = <<>>
    /\ parse_result = <<>>

WalkIdle ==
    /\ walk_element = <<>>
    /\ walked = <<>>

QueryIdle ==
    /\ q_nets = <<>>
    /\ q_mapping = <<>>
    /\ q_net = 0
    /\ q_interpolate = FALSE
    /\ q_pc = "idle"
    /\ q_element = 0
    /\ q_point = 0
    /\ q_size = 0
    /\ q_indices = <<>>
    /\ q_best = <<>>
    /\ q_result = <<>>

MainIdle ==
    /\ pc = "idle"
    /\ err = ""
    /\ mode = "accurate"
    /\ unit = <<>>
    /\ def_body = <<>>
    /\ def_file = <<>>
    /\ data = "unread"
    /\ nets = <<>>
    /\ stress_target_nets = <<>>
    /\ layer_mapping = <<>>
    /\ has_trees = FALSE
    /\ next_net = 0
    /\ closest_net = 0
    /\ metal_layer = None
    /\ neighbouring_nets = <<>>
    /\ output = <<>>

InitNormalize ==
    /\ rp \in Chains \cup ViaChains
    /\ rp_parsed = rp
    /\ rp_once = rp
    /\ passes = 0
    /\ BuildIdle
    /\ ParseIdle
    /\ WalkIdle
    /\ QueryIdle
    /\ MainIdle

\* point.normalize()
Normalize ==
    /\ passes < MaxPasses
    /\ rp' = normalize(rp)
    /\ rp_once' = IF passes = 0 THEN normalize(rp) ELSE rp_once
    /\ passes' = passes + 1
    /\ UNCHANGED <<rp_parsed, buildVars, parseVars, walkVars, queryVars, mainVars>>

NextNormalize == Normalize

SpecNormalize == InitNormalize /\ [][NextNormalize]_vars

(***************************************************************************)
(* SpecBuild: Lark hands one parsed statement to the transformer.          *)
(***************************************************************************)
InitBuild ==
    /\ tree \in {Statement(<<"n", "1">>, c) : c \in ClauseLists}
    /\ built = <<>>
    /\ bpc = "parsed"
    /\ NormIdle
    /\ ParseIdle
    /\ WalkIdle
    /\ QueryIdle
    /\ MainIdle

BuildNet ==
    /\ bpc = "parsed"
    /\ built' = net_statement(tree)
    /\ bpc' = "built"
    /\ UNCHANGED <<tree, normVars, parseVars, walkVars, queryVars, mainVars>>

NextBuild == BuildNet

SpecBuild == InitBuild /\ [][NextBuild]_vars

(***************************************************************************)
(* SpecParse: the LALR parser Lark builds from NET_GRAMMAR, applied to the *)
(* text of a NETS section.  The text is a sequence of tokens:              *)
(*   "-"  ";"     the literals that open and close a statement             *)
(*   "ua" "ub"    words (net names)                                        *)
(*   "(pin)"      a connection "( component pin )" of the header           *)
(*   "+ USE" ...  a clause with its operands, named by its keyword;        *)
(*                "+ ROUTED" is a wiring that ends in a routing point,     *)
(*                e.g. + ROUTED metal1 ( 0 0 ) via1_4                      *)
(* The parser state says which terminals can come next; with the           *)
(* contextual lexer of parser='lalr' a piece of text is matched against    *)
(* those terminals only.  The terminals for names are /[^\s\+]+/: where    *)
(* one of them can come next, any word that is not a literal expected      *)
(* there is a name.                                                        *)
(***************************************************************************)
\* The clauses of net_statement, in the order of the rule.
clause_rank(token) ==
    CASE token = "+ SHIELDNET" -> 1
      [] token = "+ VPIN" -> 2
      [] token = "+ XTALK" -> 3
      [] token = "+ NONDEFAULTRULE" -> 4
      [] token = "+ ROUTED" -> 5
      [] token = "+ SOURCE" -> 6
      [] token = "+ FIXEDBUMP" -> 7
      [] token = "+ FREQUENCY" -> 8
      [] token = "+ ORIGINAL" -> 9
      [] token = "+ USE" -> 10
      [] token = "+ PATTERN" -> 11
      [] token = "+ ESTCAP" -> 12
      [] token = "+ WEIGHT" -> 13
      [] token = "+ PROPERTY" -> 14
      [] OTHER -> 0

is_clause(token) == clause_rank(token) > 0

\* ( ... )* and rule*: shield_nets, virtual_pins, regular_wirings, net_properties
repeatable(rank) == rank \in {1, 2, 5, 14}

regular_wiring_rank == 5

\* Text that /[^\s\+]+/ matches as a whole: a word, "-" or ";".
is_word(token) == ~is_clause(token) /\ token # "(pin)"

\* trailing_option+ with mask_via: via_name: after a routing point VIA_NAME
\* can come next, so a word that is not ";" is one more via of the point.
is_via_name(rank, token) ==
    rank = regular_wiring_rank /\ is_word(token) /\ token # ";"

Accepted(net_list) == [ok |-> TRUE, nets |-> net_list]

\* state: "start" before a statement, "name" after its "-", "clauses" after
\* its header or a clause; rank: the rank of the last clause, 0 in the header.
RECURSIVE lalr_parse(_, _, _, _)
lalr_parse(tokens, state, rank, net_list) ==
    IF tokens = <<>>
    THEN IF state = "start" THEN Accepted(net_list)
         ELSE Raised("UnexpectedInput")
    ELSE LET token == Head(tokens)
             rest == Tail(tokens)
             last == Len(net_list)
         IN CASE state = "start" ->
                   IF token = "-" THEN lalr_parse(rest, "name", 0, net_list)
                   ELSE Raised("UnexpectedInput")
              [] state = "name" ->
                   IF is_word(token)
                   THEN lalr_parse(rest, "clauses", 0,
                            Append(net_list, [net_name |-> token,
                                              clauses |-> <<>>,
                                              vias |-> <<>>]))
                   ELSE Raised("UnexpectedInput")
              [] state = "clauses" ->
                   IF token = ";" THEN lalr_parse(rest, "start", 0, net_list)
                   ELSE IF token = "(pin)"
                   THEN IF rank = 0 THEN lalr_parse(rest, "clauses", 0, net_list)
                        ELSE Raised("UnexpectedInput")
                   ELSE IF is_clause(token)
                   THEN IF \/ clause_rank(token) > rank
                           \/ clause_rank(token) = rank /\ repeatable(rank)
                        THEN lalr_parse(rest, "clauses", clause_rank(token),
                                 [net_list EXCEPT ![last].clauses = Append(@, token)])
                        ELSE Raised("UnexpectedInput")
                   ELSE IF is_via_name(rank, token)
                   THEN lalr_parse(rest, "clauses", rank,
                            [net_list EXCEPT ![last].vias = Append(@, token)])
                   ELSE Raised("UnexpectedInput")

\* Lark(NET_GRAMMAR, parser='lalr', start='net_statements').parse(data)
Lark_parse(tokens) == lalr_parse(tokens, "start", 0, <<>>)

\* The statements SpecParse writes: "- name", the connections or not, up to
\* MaxClauses clauses, and ";" or not.
MaxClauses == 2

ClauseKeywords ==
    {"+ SHIELDNET", "+ XTALK", "+ ROUTED", "+ USE", "+ WEIGHT", "+ PROPERTY"}

Written(name, clause_lists) ==
    [net_name : {name}, pins : BOOLEAN, clauses : clause_lists,
     terminated : BOOLEAN]

Sources ==
    LET first == Written("ua", {<<>>} \cup SeqsUpTo(ClauseKeywords, MaxClauses))
        second == Written("ub", {<<>>, <<"+ ROUTED">>})
    IN {<<a>> : a \in first} \cup {<<a, b>> : a \in first, b \in second}

\* The text of a written statement, and of a list of them.
statement_tokens(w) ==
    <<"-", w.net_name>> \o (IF w.pins THEN <<"(pin)">> ELSE <<>>)
        \o w.clauses \o (IF w.terminated THEN <<";">> ELSE <<>>)

RECURSIVE section_tokens(_)
section_tokens(written) ==
    IF written = <<>> THEN <<>>
    ELSE statement_tokens(Head(written)) \o section_tokens(Tail(written))

InitParse ==
    /\ source \in Sources
    /\ parse_result = <<>>
    /\ NormIdle
    /\ BuildIdle
    /\ WalkIdle
    /\ QueryIdle
    /\ MainIdle

\* parse_nets_section(data), up to the transformer
LarkParse ==
    /\ parse_result = <<>>
    /\ parse_result' = Lark_parse(section_tokens(source))
    /\ UNCHANGED <<source, normVars, buildVars, walkVars, queryVars, mainVars>>

NextParse == LarkParse

SpecParse == InitParse /\ [][NextParse]_vars

(***************************************************************************)
(* SpecWalk: walk_routing_element applied to one RoutingPoint whose points *)
(* list holds one Point (an anchor followed by a via) or two.              *)
(***************************************************************************)
WalkCoords == {-5, 0, 8, 30}
WalkPoints == {Point(Num(x), Num(y)) : x \in WalkCoords, y \in WalkCoords}

WalkElements ==
    {RoutingPoint_set_point_list(RoutingPoint(p, <<Via("via1_4")>>)) :
        p \in WalkPoints}
    \cup {RoutingPoint_set_point_list(RoutingPoint(p, <<q>>)) :
              p \in WalkPoints, q \in WalkPoints}

InitWalk ==
    /\ walk_element \in WalkElements
    /\ walked = <<>>
    /\ NormIdle
    /\ BuildIdle
    /\ ParseIdle
    /\ QueryIdle
    /\ MainIdle

\* list(walk_routing_element(element))
Walk ==
    /\ walked = <<>>
    /\ walked' = walk_routing_element(walk_element)
    /\ UNCHANGED <<walk_element, normVars, buildVars, parseVars, queryVars,
                   mainVars>>

NextWalk == Walk

SpecWalk == InitWalk /\ [][NextWalk]_vars

(***************************************************************************)
(* Spec: main() of nets_finder.py.                                         *)
(*                                                                         *)
(* Inputs: a file of up to MaxNets net statements; the i-th is named       *)
(* NetName(i) and its wiring is one of Wirings:                            *)
(*   no wiring at all                                                      *)
(*   + ROUTED metal1 ( 0 0 ) ( 25 * )                                      *)
(*   + ROUTED metal1 ( 12 3 ) via1_4                                       *)
(*   + ROUTED metal1 ( 30 0 ) ( * 4 ) NEW metal2 ( 0 0 ) via1_4            *)
(*   + ROUTED metal2 ( 0 4 ) via1_4                                        *)
(*   + ROUTED metal1 ( 0 0 ) ( 5 * ) ( * 5 )                               *)
(***************************************************************************)
MaxNets == 3

Letters == <<"a", "b", "c", "d", "e", "f", "g", "h">>
NetName(i) == <<IF i % 4 = 0 THEN "v" ELSE "u", Letters[i]>>

Units == {<<"u">>, <<"b">>, <<"x">>}
Modes == {"accurate", "relaxed", "insane"}

Clause(layer, x, y, trailing, new) ==
    [layer |-> layer,
     routing_point |-> [point |-> Point(Num(x), Num(y)),
                        trailing_options |-> trailing],
     new |-> new]

Wirings ==
    {<<>>,
     <<Clause("metal1", 0, 0, <<Point(Num(25), Star)>>, FALSE)>>,
     <<Clause("metal1", 12, 3, <<Via("via1_4")>>, FALSE)>>,
     <<Clause("metal1", 30, 0, <<Point(Star, Num(4))>>, FALSE),
       Clause("metal2", 0, 0, <<Via("via1_4")>>, TRUE)>>,
     <<Clause("metal2", 0, 4, <<Via("via1_4")>>, FALSE)>>,
     <<Clause("metal1", 0, 0, <<Point(Num(5), Star), Point(Star, Num(5))>>,
              FALSE)>>}

\* The text of a file, cut into the tokens the regular expression of main()
\* tells apart; Statements stands for the net statements (def_body).
Statements == "<net statements>"

Layouts ==
    {<<"DESIGN", "NETS", "3", ";", Statements, "END NETS", "END DESIGN">>,
     <<"DESIGN", "NETS", "3", ";", Statements, "END DESIGN">>,
     <<"DESIGN", Statements, "END NETS", "END DESIGN">>,
     <<"DESIGN", "NETS", ";", Statements, "END NETS", "END DESIGN">>,
     <<"END NETS", "NETS", "3", ";", Statements, "END DESIGN">>,
     <<"SPECIALNETS", "3", ";", Statements, "END SPECIALNETS">>,
     <<"DESIGN", "NETS", "3", ";", Statements, "PINS", "END NETS", "END DESIGN">>}

Files ==
    UNION {{[i \in 1..n |-> Statement(NetName(i), w[i])] :
              w \in [1..n -> Wirings]} : n \in 0..MaxNets}

Init ==
    /\ pc = "read"
    /\ err = ""
    /\ mode \in Modes
    /\ unit \in Units
    /\ def_body \in Files
    /\ def_file \in Layouts
    /\ data = [read |-> FALSE]
    /\ nets = <<>>
    /\ stress_target_nets = <<>>
    /\ layer_mapping = <<>>
    /\ has_trees = FALSE
    /\ next_net = 0
    /\ closest_net = 0
    /\ metal_layer = None
    /\ neighbouring_nets = <<>>
    /\ output = <<>>
    /\ NormIdle
    /\ BuildIdle
    /\ ParseIdle
    /\ WalkIdle
    /\ QueryIdle

Fail(exception) ==
    /\ pc' = "failed"
    /\ err' = exception

\* with open(def_file_name) as input_file: data = input_file.read()
ReadFile ==
    /\ pc = "read"
    /\ \E readable \in BOOLEAN :
          IF readable
          THEN /\ data' = [read |-> TRUE, text |-> def_file]
               /\ pc' = "isolate"
               /\ err' = err
          ELSE /\ data' = data
               /\ pc' = "exited"
               /\ err' = "Unable to open file for reading."
    /\ UNCHANGED <<mode, unit, def_body, def_file, nets, stress_target_nets,
                   layer_mapping, has_trees, next_net, closest_net,
                   metal_layer, neighbouring_nets, output, normVars, buildVars,
                   parseVars, walkVars, queryVars>>

\* \d+
IsCount(token) == token \in {"0", "1", "2", "3", "4", "5", "6", "7", "8", "9"}

\* the same search without the closing \bEND NETS\b
re_search_unclosed(text) ==
    LET starts == {i \in DOMAIN text :
                      /\ i + 2 <= Len(text)
                      /\ text[i] = "NETS"
                      /\ IsCount(text[i + 1])
                      /\ text[i + 2] = ";"}
    IN IF starts = {} THEN [found |-> FALSE]
       ELSE LET i == CHOOSE i \in starts : \A k \in starts : i <= k
            IN [found |-> TRUE, group |-> SubSeq(text, i + 3, Len(text))]

\* re.search(r'\bNETS\b\s+\d+\s*;(.*)\bEND NETS\b', data): the leftmost
\* "NETS <count> ;" that an "END NETS" follows, and in group(1) everything
\* up to the last "END NETS".
re_search(text) ==
    LET ends(i) == {j \in DOMAIN text : j > i + 2 /\ text[j] = "END NETS"}
        starts == {i \in DOMAIN text :
                      /\ i + 2 <= Len(text)
                      /\ text[i] = "NETS"
                      /\ IsCount(text[i + 1])
                      /\ text[i + 2] = ";"
                      /\ ends(i) # {}}
    IN IF starts = {} THEN [found |-> FALSE]
       ELSE LET i == CHOOSE i \in starts : \A k \in starts : i <= k
                j == CHOOSE j \in ends(i) : \A k \in ends(i) : k <= j
            IN [found |-> TRUE, group |-> SubSeq(text, i + 3, j - 1)]

\* re.search(r'\bNETS\b\s+\d+\s*;(.*)\bEND NETS\b', data)
IsolateNets ==
    /\ pc = "isolate"
    /\ LET match == re_search(data.text)
       IN IF match.found
          THEN /\ data' = [read |-> TRUE, text |-> match.group]
               /\ pc' = "parse"
               /\ err' = err
          ELSE /\ Fail("ValueError: Invalid input file")
               /\ data' = data
    /\ UNCHANGED <<mode, unit, def_body, def_file, nets, stress_target_nets,
                   layer_mapping, has_trees, next_net, closest_net,
                   metal_layer, neighbouring_nets, output, normVars, buildVars,
                   parseVars, walkVars, queryVars>>

\* nets = parse_nets_section(data); text that holds more than net
\* statements makes Lark raise
Parse ==
    /\ pc = "parse"
    /\ IF data.text = <<Statements>>
       THEN /\ nets' = parse_nets_section(def_body)
            /\ pc' = "filter"
            /\ err' = err
       ELSE /\ Fail("lark.exceptions.UnexpectedInput")
            /\ nets' = nets
    /\ UNCHANGED <<mode, unit, def_body, def_file, data, stress_target_nets,
                   layer_mapping, has_trees, next_net, closest_net,
                   metal_layer, neighbouring_nets, output, normVars, buildVars,
                   parseVars, walkVars, queryVars>>

\* functional_unit in net.get_name() and net.routing_points != None
is_target(net, functional_unit) ==
    Contains(functional_unit, get_name(net)) /\ IsSet(net, "routing_points")

RECURSIVE filter_nets(_, _)
filter_nets(net_list, functional_unit) ==
    IF net_list = <<>> THEN <<>>
    ELSE IF is_target(Head(net_list), functional_unit)
         THEN <<Head(net_list)>> \o filter_nets(Tail(net_list), functional_unit)
         ELSE filter_nets(Tail(net_list), functional_unit)

\* assert (len(stress_target_nets) > 0)
targets_assertion_off(filtered) == TRUE
targets_assertion(filtered) == Len(filtered) > 0

Filter ==
    /\ pc = "filter"
    /\ LET filtered == filter_nets(nets, unit)
       IN /\ stress_target_nets' = filtered
          /\ IF targets_assertion(filtered)
             THEN /\ pc' = IF mode = "relaxed" THEN "match" ELSE "index"
                  /\ err' = err
             ELSE Fail("AssertionError: Unable to extract nets of unit")
    /\ next_net' = 1
    /\ UNCHANGED <<mode, unit, def_body, def_file, data, nets, layer_mapping, has_trees,
                   closest_net, metal_layer, neighbouring_nets, output,
                   normVars, buildVars,
                   parseVars, walkVars, queryVars>>

\* distance_trees, layer_mapping = points_per_metal_layer(stress_target_nets[, interpolate=True])
BuildIndex ==
    /\ pc = "index"
    /\ IF points_assertion(stress_target_nets)
       THEN /\ layer_mapping' =
                  points_per_metal_layer(stress_target_nets, mode = "insane")
            /\ has_trees' = TRUE
            /\ pc' = "match"
            /\ err' = err
       ELSE /\ Fail("AssertionError: Element has >2 points")
            /\ UNCHANGED <<layer_mapping, has_trees>>
    /\ UNCHANGED <<mode, unit, def_body, def_file, data, nets, stress_target_nets,
                   next_net, closest_net, metal_layer, neighbouring_nets,
                   output, normVars, buildVars,
                   parseVars, walkVars, queryVars>>

\* f"{closest_net.get_name()},{net.get_name()}" in neighbouring_nets
reversed_key(net_name, closest_name) ==
    Str(closest_name) \o "," \o Str(net_name)

\* pair = f"{net.get_name()},{closest_net.get_name()}"
pair_swapped(net_name, closest_name) == Str(closest_name) \o "," \o Str(net_name)
pair_of(net_name, closest_name) == Str(net_name) \o "," \o Str(closest_name)

\* neighbouring_nets.append(...)
list_prepend(list, item) == <<item>> \o list
list_append(list, item) == Append(list, item)

\* one iteration of `for net in stress_target_nets`
MatchNet ==
    /\ pc = "match"
    /\ next_net <= Len(stress_target_nets)
    /\ \E tie \in TieOrders :
          LET net == stress_target_nets[next_net]
              result ==
                  IF mode = "relaxed"
                  THEN find_minimum_distance_for_starting_point(
                           stress_target_nets, next_net)
                  ELSE find_minimum_distance_across_layers(
                           stress_target_nets, next_net, layer_mapping,
                           mode = "insane", tie)
          IN IF result.ok
             THEN LET closest == stress_target_nets[result.net]
                      pair == pair_of(get_name(net), get_name(closest))
                  IN /\ closest_net' = result.net
                     /\ metal_layer' = result.layer
                     /\ neighbouring_nets' =
                           IF \E i \in DOMAIN neighbouring_nets :
                                 neighbouring_nets[i] =
                                    reversed_key(get_name(net), get_name(closest))
                           THEN neighbouring_nets
                           ELSE list_append(neighbouring_nets,
                                            pair \o "," \o result.layer)
                     /\ next_net' = next_net + 1
                     /\ UNCHANGED <<pc, err>>
             ELSE /\ Fail(result.error)
                  /\ UNCHANGED <<closest_net, metal_layer, neighbouring_nets,
                                 next_net>>
    /\ UNCHANGED <<mode, unit, def_body, def_file, data, nets, stress_target_nets,
                   layer_mapping, has_trees, output, normVars, buildVars,
                   parseVars, walkVars, queryVars>>

\* A variant that reaches the export while nets are still to be matched.
loop_left_early(next, targets) == TRUE

\* The for loop over stress_target_nets has run out of nets.
loop_exhausted(next, targets) == next > Len(targets)

\* with open(output_file, "w") as output: output.write(f"{pair}\n")
Export ==
    /\ pc = "match"
    /\ loop_exhausted(next_net, stress_target_nets)
    /\ output' = [i \in DOMAIN neighbouring_nets |-> neighbouring_nets[i] \o "\n"]
    /\ pc' = "done"
    /\ UNCHANGED <<err, mode, unit, def_body, def_file, data, nets, stress_target_nets,
                   layer_mapping, has_trees, next_net, closest_net,
                   metal_layer, neighbouring_nets, normVars, buildVars,
                   parseVars, walkVars, queryVars>>

Next ==
    \/ ReadFile
    \/ IsolateNets
    \/ Parse
    \/ Filter
    \/ BuildIndex
    \/ MatchNet
    \/ Export

Spec == Init /\ [][Next]_vars

(***************************************************************************)
(* SpecQuery: one call of find_minimum_distance_across_layers, one         *)
(* tree.query per step.  The call is made for a net of the list the index  *)
(* was built from.  Inputs are four files:                                 *)
(*   crowd   ua: CrowdOwn vias in a row on metal1; ub: CrowdOther vias on  *)
(*           metal1, far from them; uc: one via on metal2                  *)
(*   lonely  ua: LonelyOwn vias on metal2, where no other net is, then a   *)
(*           metal1 segment (0,0)-(25,0); ub, uc, vd: one metal1 via each, *)
(*           at (3,0), (0,3) and (28,0)                                    *)
(*   stray   ua: a metal1 via at (5000,0), then StrayOwn vias in a row on  *)
(*           metal1; ub: a metal1 via at (5000,100); uc: a metal1 via at   *)
(*           (100,60), nearer to the row than ub is to the first via       *)
(*   small   ua: metal1 segment (0,0)-(25,0) and a metal2 via; ub: a       *)
(*           metal1 via at (12,3) and a metal2 via                         *)
(***************************************************************************)
CrowdOwn == 201
CrowdOther == 100
LonelyOwn == 101
StrayOwn == 200

\* + ROUTED layer ( x0+1 0 ) via1_4 NEW layer ( x0+2 0 ) via1_4 ...
Row(layer, x0, count) ==
    [i \in 1..count |-> Clause(layer, x0 + i, 0, <<Via("via1_4")>>, i > 1)]

\* the parsed statement of a net with one wiring: a first clause and its
\* NEW clauses (what Statement gives, without walking the clauses one by one)
Wired(name, clauses) ==
    [header |-> name,
     regular_wirings |->
        <<[layer |-> clauses[1].layer,
           routing_point |-> clauses[1].routing_point,
           news |-> [i \in 1..(Len(clauses) - 1) |->
                       [layer |-> clauses[i + 1].layer,
                        routing_point |-> clauses[i + 1].routing_point]]]>>]

QueryFiles ==
    {<<Wired(NetName(1), Row("metal1", 0, CrowdOwn)),
       Wired(NetName(2), Row("metal1", 1000, CrowdOther)),
       Wired(NetName(3), Row("metal2", 0, 1))>>,
     <<Wired(NetName(1),
                 Row("metal2", 0, LonelyOwn)
                    \o <<Clause("metal1", 0, 0, <<Point(Num(25), Star)>>, TRUE)>>),
       Wired(NetName(2), <<Clause("metal1", 3, 0, <<Via("via1_4")>>, FALSE)>>),
       Wired(NetName(3), <<Clause("metal1", 0, 3, <<Via("via1_4")>>, FALSE)>>),
       Wired(NetName(4), <<Clause("metal1", 28, 0, <<Via("via1_4")>>, FALSE)>>)>>,
     <<Wired(NetName(1),
             <<Clause("metal1", 5000, 0, <<Via("via1_4")>>, FALSE)>>
                \o Row("metal1", 0, StrayOwn)),
       Wired(NetName(2), <<Clause("metal1", 5000, 100, <<Via("via1_4")>>, FALSE)>>),
       Wired(NetName(3), <<Clause("metal1", 100, 60, <<Via("via1_4")>>, FALSE)>>)>>,
     <<Wired(NetName(1),
                 <<Clause("metal1", 0, 0, <<Point(Num(25), Star)>>, FALSE),
                   Clause("metal2", 0, 0, <<Via("via1_4")>>, TRUE)>>),
       Wired(NetName(2),
                 <<Clause("metal1", 12, 3, <<Via("via1_4")>>, FALSE),
                   Clause("metal2", 0, 4, <<Via("via1_4")>>, TRUE)>>)>>}

\* minimum_distance = np.inf; ..._net_index = None; ..._net_layer = None
InitQuery ==
    /\ q_nets \in {parse_nets_section(file) : file \in QueryFiles}
    /\ q_net \in DOMAIN q_nets
    /\ q_interpolate \in BOOLEAN
    /\ q_mapping = points_per_metal_layer(q_nets, q_interpolate)
    /\ q_pc = "for point"
    /\ q_element = 1
    /\ q_point = 0
    /\ q_size = 0
    /\ q_indices = <<>>
    /\ q_best = [minimum_distance |-> Inf, index |-> NoIndex, layer |-> None]
    /\ q_result = <<>>
    /\ NormIdle
    /\ BuildIdle
    /\ ParseIdle
    /\ WalkIdle
    /\ MainIdle

\* the routing_point the outer loop is at, its layer and its query points
QElement == q_nets[q_net].routing_points[q_element]
QLayer == QElement.metal_layer
QPoints == query_points(QElement, q_interpolate)

\* for routing_point in net.routing_points: ... for point in points:
\*     max_query_size = len(...); query_size = min(100, max_query_size)
NextQueryPoint ==
    /\ q_pc = "for point"
    /\ q_element <= Len(q_nets[q_net].routing_points)
    /\ IF q_point < Len(QPoints)
       THEN /\ q_point' = q_point + 1
            /\ q_size' = first_query_size(Len(q_mapping[QLayer]))
            /\ q_pc' = "while"
            /\ UNCHANGED q_element
       ELSE /\ q_element' = q_element + 1
            /\ q_point' = 0
            /\ UNCHANGED <<q_size, q_pc>>
    /\ UNCHANGED <<q_nets, q_mapping, q_net, q_interpolate, q_indices, q_best,
                   q_result, normVars, buildVars, parseVars, walkVars, mainVars>>

\* one iteration of `while query_size <= max_query_size`
Query ==
    /\ q_pc = "while"
    /\ q_size <= Len(q_mapping[QLayer])
    /\ \E tie \in TieOrders :
       \E indices \in {kd_query(q_mapping[QLayer], QPoints[q_point], q_size, tie)} :
          LET max_query_size == Len(q_mapping[QLayer])
          IN /\ q_indices' = indices
             /\ q_best' = scan_results(q_nets, q_net, q_mapping[QLayer], QLayer,
                                       QPoints[q_point], indices, q_best)
             /\ IF q_best'.index # NoIndex \/ q_size = max_query_size
                THEN /\ q_pc' = "for point"
                     /\ UNCHANGED q_size
                ELSE /\ q_size' = next_query_size(q_size, max_query_size)
                     /\ UNCHANGED q_pc
    /\ UNCHANGED <<q_nets, q_mapping, q_net, q_interpolate, q_element, q_point,
                   q_result, normVars, buildVars, parseVars, walkVars, mainVars>>

\* assert (minimum_distance_net_index is not None); return ...
QueryReturn ==
    /\ q_pc = "for point"
    /\ q_element > Len(q_nets[q_net].routing_points)
    /\ IF q_best.index = NoIndex
       THEN /\ q_pc' = "raised"
            /\ q_result' = Raised("AssertionError: There is no other net on this layer to match with")
       ELSE /\ q_pc' = "returned"
            /\ q_result' = Found(q_mapping[q_best.layer][q_best.index + 1].net,
                                 q_best.layer)
    /\ UNCHANGED <<q_nets, q_mapping, q_net, q_interpolate, q_element, q_point,
                   q_size, q_indices, q_best, normVars, buildVars, parseVars,
                   walkVars, mainVars>>

NextQuery ==
    \/ NextQueryPoint
    \/ Query
    \/ QueryReturn

SpecQuery == InitQuery /\ [][NextQuery]_vars

\* The function is sequential code: a step that can be taken is taken.
\* Checked on the files whose first net has at most LonelyOwn NEW clauses.
InitQueryFair ==
    /\ InitQuery
    /\ Len(q_nets[1].routing_points) <= LonelyOwn + 1

SpecQueryFair == InitQueryFair /\ [][NextQuery]_vars /\ WF_vars(NextQuery)

(***************************************************************************)
(* Claims about RoutingPoint.normalize, under SpecNormalize.               *)
(***************************************************************************)
IsPoint(e) == e.kind = "Point"

\* Index of the nearest Point before position k of mods, 0 if there is none.
PrevPointIndex(mods, k) ==
    LET before == {j \in 1..(k - 1) : IsPoint(mods[j])}
    IN IF before = {} THEN 0 ELSE CHOOSE j \in before : \A i \in before : i <= j

\* C2: normalisation is idempotent: after a second (or later) normalize() the
\* chain is exactly what it was after the first one, for every chain of
\* Point, Via and Rect elements with any mix of wildcards.
C2_NormalizeIdempotent == passes >= 2 => rp = rp_once

C2_Witness ==
    /\ passes = 2
    /\ rp_once # rp_parsed
    /\ rp_parsed.starting_point.x = Star
    /\ \E k \in DOMAIN rp_parsed.trailing_modules :
          ~IsPoint(rp_parsed.trailing_modules[k])

\* C4: wildcard resolution is forward-fill: after normalize() every trailing
\* Point keeps its non-wildcard coordinates, and a wildcard x (resp. y) holds
\* the resolved x (resp. y) of the nearest preceding Point of the chain, the
\* anchor if there is none; the anchor itself is not changed.
C4_ForwardFill ==
    passes >= 1 =>
        /\ rp_once.starting_point = rp_parsed.starting_point
        /\ Len(rp_once.trailing_modules) = Len(rp_parsed.trailing_modules)
        /\ \A k \in DOMAIN rp_parsed.trailing_modules :
              LET was == rp_parsed.trailing_modules[k]
                  now == rp_once.trailing_modules[k]
                  j == PrevPointIndex(rp_parsed.trailing_modules, k)
                  before == IF j = 0 THEN rp_once.starting_point
                            ELSE rp_once.trailing_modules[j]
              IN IsPoint(was) =>
                    /\ IsPoint(now)
                    /\ now.x = (IF was.x = Star THEN before.x ELSE was.x)
                    /\ now.y = (IF was.y = Star THEN before.y ELSE was.y)

\* (5,5) -> (*,9) -> (7,*) becomes (5,5) -> (5,9) -> (7,9)
C4_Witness ==
    /\ passes >= 1
    /\ rp_parsed = RoutingPoint(Point(Num(5), Num(5)),
                                <<Point(Star, Num(9)), Point(Num(7), Star)>>)
    /\ rp_once = RoutingPoint(Point(Num(5), Num(5)),
                              <<Point(Num(5), Num(9)), Point(Num(7), Num(9))>>)

\* C25: normalisation leaves every Via and Rect of a chain as it was, and a
\* Via or Rect does not touch the running coordinates: a wildcard of a Point
\* that follows a Via or Rect holds the resolved coordinate of the last Point
\* before that Via or Rect (the anchor if there is none).
C25_ViaAndRectPassThrough ==
    passes >= 1 =>
        \A k \in DOMAIN rp_parsed.trailing_modules :
            LET was == rp_parsed.trailing_modules[k]
                now == rp_once.trailing_modules[k]
                j == PrevPointIndex(rp_parsed.trailing_modules, k)
                last == IF j = 0 THEN rp_once.starting_point
                        ELSE rp_once.trailing_modules[j]
            IN /\ ~IsPoint(was) => now = was
               /\ (IsPoint(was) /\ k > 1 /\ j < k - 1) =>
                     /\ was.x = Star => now.x = last.x
                     /\ was.y = Star => now.y = last.y

\* (5,5) -> (*,9) -> via2_5 -> (7,*) becomes (5,5) -> (5,9) -> via2_5 -> (7,9)
C25_Witness ==
    /\ passes >= 1
    /\ rp_parsed = RoutingPoint(Point(Num(5), Num(5)),
                                <<Point(Star, Num(9)), Via("via2_5"),
                                  Point(Num(7), Star)>>)
    /\ rp_once = RoutingPoint(Point(Num(5), Num(5)),
                              <<Point(Num(5), Num(9)), Via("via2_5"),
                                Point(Num(7), Num(9))>>)

(***************************************************************************)
(* Claims about the model builder, under SpecBuild.                        *)
(***************************************************************************)
Range(f) == {f[i] : i \in DOMAIN f}

\* The routing_point subtrees of a parsed statement.
ParsedChains(t) ==
    UNION {{w.routing_point} \cup {n.routing_point : n \in Range(w.news)} :
             w \in Range(t.regular_wirings)}

AnchorsResolved(t) ==
    \A c \in ParsedChains(t) : c.point.x # Star /\ c.point.y # Star

\* Every RoutingPoint reachable from a Net: through regular_wirings and
\* through the flat routing_points list.
ReachableRoutingPoints(net) ==
    (IF IsSet(net, "regular_wirings")
     THEN UNION {Range(w.routing_points) : w \in Range(net.regular_wirings)}
     ELSE {})
    \cup (IF IsSet(net, "routing_points") THEN Range(net.routing_points) ELSE {})

\* Every Point reachable from a RoutingPoint: the anchor, the trailing
\* Points and the points list.
ReachablePoints(r) ==
    {r.starting_point}
    \cup {e \in Range(r.trailing_modules) : IsPoint(e)}
    \cup (IF IsSet(r, "points") THEN Range(r.points) ELSE {})

\* C3: for a statement whose chain anchors all have integer x and y, no Point
\* reachable from the built Net (regular_wirings, routing_points, the points
\* list of each RoutingPoint) has a wildcard as x or y.
C3_NoWildcardAfterBuild ==
    (bpc = "built" /\ AnchorsResolved(tree)) =>
        /\ IsSet(built, "routing_points")
        /\ \A r \in ReachableRoutingPoints(built) :
              /\ IsSet(r, "points")
              /\ \A q \in ReachablePoints(r) : q.x # Star /\ q.y # Star

C3_Witness ==
    /\ bpc = "built"
    /\ AnchorsResolved(tree)
    /\ \E w \in Range(tree.regular_wirings) :
          /\ Point(Star, Star) \in Range(w.routing_point.trailing_options)
          /\ \E n \in Range(w.news) :
                Point(Num(3), Star) \in Range(n.routing_point.trailing_options)
    /\ Len(built.routing_points) = 2

\* C5: a statement with a wildcard in the anchor of a chain never yields a
\* Net: the build fails instead of returning.
C5_WildcardAnchorIsFatal == ~AnchorsResolved(tree) => bpc # "built"

\* C6: after the build every RoutingPoint of the Net has a layer tag other
\* than None: the first RoutingPoint of a wiring carries the layer named
\* after its ROUTED/FIXED/COVER/NOSHIELD keyword, and each NEW continuation
\* the layer named in its own NEW clause.
C6_LayerTagsSet ==
    bpc = "built" =>
        /\ \A r \in ReachableRoutingPoints(built) : r.metal_layer # None
        /\ Len(tree.regular_wirings) > 0 =>
              /\ Len(built.regular_wirings) = Len(tree.regular_wirings)
              /\ \A i \in DOMAIN tree.regular_wirings :
                    LET t == tree.regular_wirings[i]
                        w == built.regular_wirings[i].routing_points
                    IN /\ Len(w) = 1 + Len(t.news)
                       /\ w[1].metal_layer = t.layer
                       /\ \A j \in DOMAIN t.news :
                             w[j + 1].metal_layer = t.news[j].layer

C6_Witness ==
    /\ bpc = "built"
    /\ Len(tree.regular_wirings) = 1
    /\ tree.regular_wirings[1].layer = "metal1"
    /\ Len(tree.regular_wirings[1].news) = 1
    /\ tree.regular_wirings[1].news[1].layer = "metal2"
    /\ built.routing_points[1].metal_layer = "metal1"
    /\ built.routing_points[2].metal_layer = "metal2"

\* The chains of a parsed wiring, in order: the first one and its NEWs.
ChainsOf(w) ==
    <<w.routing_point>> \o [j \in DOMAIN w.news |-> w.news[j].routing_point]

\* What forward-fill inside one chain gives for its k-th trailing element.
RECURSIVE FilledAlone(_, _)
FilledAlone(c, k) ==
    LET was == c.trailing_options[k]
        j == PrevPointIndex(c.trailing_options, k)
        last == IF j = 0 THEN c.point ELSE FilledAlone(c, j)
    IN IF IsPoint(was)
       THEN Point(IF was.x = Star THEN last.x ELSE was.x,
                  IF was.y = Star THEN last.y ELSE was.y)
       ELSE was

\* C26: every chain of a wiring is normalised from its own anchor and by
\* itself: in the built Net each chain, the first of its wiring or a NEW
\* continuation, is what forward-fill gives from that chain's anchor and
\* elements alone, whatever the chains before and after it hold.
C26_ChainsNormalisedAlone ==
    (bpc = "built" /\ Len(tree.regular_wirings) > 0) =>
        \A i \in DOMAIN tree.regular_wirings :
            LET parsed == ChainsOf(tree.regular_wirings[i])
                chains == built.regular_wirings[i].routing_points
            IN /\ Len(chains) = Len(parsed)
               /\ \A j \in DOMAIN parsed :
                     /\ chains[j].starting_point = parsed[j].point
                     /\ chains[j].trailing_modules =
                           [k \in DOMAIN parsed[j].trailing_options |->
                               FilledAlone(parsed[j], k)]

\* + ROUTED metal1 ( 1 2 ) ( 3 * ) NEW metal1 ( 1 2 ) ( * * ): the first
\* chain ends at (3,2), the wildcards of the NEW chain are filled with (1,2)
C26_Witness ==
    /\ bpc = "built"
    /\ Len(tree.regular_wirings) = 1
    /\ Len(tree.regular_wirings[1].news) = 1
    /\ tree.regular_wirings[1].routing_point.trailing_options
          = <<Point(Num(3), Star)>>
    /\ tree.regular_wirings[1].news[1].routing_point.trailing_options
          = <<Point(Star, Star)>>
    /\ built.routing_points[1].trailing_modules = <<Point(Num(3), Num(2))>>
    /\ built.routing_points[2].trailing_modules = <<Point(Num(1), Num(2))>>

(***************************************************************************)
(* Claims about main() and the matchers, under Spec.                       *)
(***************************************************************************)
Line(net, neighbour, layer) ==
    Str(get_name(net)) \o "," \o Str(get_name(neighbour)) \o "," \o layer

Emitted(line) == \E i \in DOMAIN neighbouring_nets : neighbouring_nets[i] = line

AllProcessed ==
    \/ pc = "match" /\ next_net > Len(stress_target_nets)
    \/ pc = "done"

\* C1: once all filtered nets have been processed, the pair list never holds
\* both a record (x, y, layer) and a record (y, x, layer') for distinct nets
\* x and y, whatever the two layers.
C1_NoSymmetricPairs ==
    AllProcessed =>
        \A x \in Range(stress_target_nets), y \in Range(stress_target_nets) :
            get_name(x) # get_name(y) =>
                ~\E l1 \in Layers, l2 \in Layers :
                    Emitted(Line(x, y, l1)) /\ Emitted(Line(y, x, l2))

\* The nets main() has matched so far without an exception.
Matched == IF pc \in {"match", "done", "failed"} /\ next_net >= 1
           THEN 1..(next_net - 1) ELSE {}

\* Points of net n on a layer, from the points lists of its RoutingPoints.
PointsOn(n, layer) ==
    UNION {{XY(q) : q \in Range(r.points)} :
             r \in {r \in Range(stress_target_nets[n].routing_points) :
                      r.metal_layer = layer}}

Others(n) ==
    {o \in DOMAIN stress_target_nets :
        get_name(stress_target_nets[o]) # get_name(stress_target_nets[n])}

\* The layers carrying a RoutingPoint of net n that hold a point of another net.
SharedLayers(n) ==
    {l \in Layers : PointsOn(n, l) # {} /\ \E o \in Others(n) : PointsOn(o, l) # {}}

\* All distances between a point of net n and a point of another net on the
\* same layer: what a scan over all pairs of points looks at.
PairDistances(n) ==
    UNION {{Dist2(a, b) : a \in PointsOn(n, l),
                          b \in UNION {PointsOn(o, l) : o \in Others(n)}} :
             l \in Layers}

Exhaustive ==
    \A l \in DOMAIN layer_mapping : Len(layer_mapping[l]) <= QueryStart

\* C7: in accurate mode, with a query size that covers every layer, the net
\* returned for a target owns a point, on the returned layer, whose distance
\* to a point of the target on that layer is the minimum over all pairs
\* (point of the target, point of another net on the same layer).
C7_AccurateIsBruteForce ==
    (mode = "accurate" /\ has_trees /\ Exhaustive /\ Matched # {}) =>
        LET n == next_net - 1
        IN /\ closest_net \in Others(n)
           /\ \E a \in PointsOn(n, metal_layer),
                 b \in PointsOn(closest_net, metal_layer) :
                 \A d \in PairDistances(n) : Dist2(a, b) <= d

C7_Witness ==
    /\ mode = "accurate"
    /\ Len(stress_target_nets) = 3
    /\ next_net = 2
    /\ pc = "match"
    /\ closest_net = 3
    /\ metal_layer = "metal1"
    /\ PointsOn(2, "metal1") # {}
    /\ Cardinality(PairDistances(1)) > 2

\* C8: after filtering, no net without a RoutingPoint is left among the
\* nets handed to index building and matching.
C8_UnroutedNetsRemoved ==
    \A i \in DOMAIN stress_target_nets :
        Len(stress_target_nets[i].routing_points) > 0

\* C9: in insane mode the per-layer index holds, for every two-endpoint
\* RoutingPoint, every point of the interpolation walk of its segment.
C9_InsaneIndexInterpolated ==
    (mode = "insane" /\ has_trees) =>
        \A n \in DOMAIN stress_target_nets :
            \A r \in Range(stress_target_nets[n].routing_points) :
                Len(r.points) = 2 =>
                    \A q \in Range(walk_routing_element(r)) :
                        [net |-> n, x |-> q[1], y |-> q[2]]
                            \in Range(layer_mapping[r.metal_layer])

NoNeighbour == "AssertionError: There is no other net on this layer to match with"

\* C10 as stated: in accurate and insane mode a net is matched only if every
\* layer that carries one of its RoutingPoints holds a point of another net.
C10_AnyLonelyLayerIsFatal ==
    (mode # "relaxed" /\ has_trees) =>
        \A n \in Matched :
            \A l \in Layers :
                PointsOn(n, l) # {} => l \in SharedLayers(n)

\* C10, amended: in accurate and insane mode matching a net fails with the
\* "no other net" error exactly when none of the layers carrying its
\* RoutingPoints holds a point of another net; a net with at least one such
\* layer is matched, on one of those layers.
C10_NoSharedLayerIsFatal ==
    (mode # "relaxed" /\ has_trees) =>
        /\ \A n \in Matched : SharedLayers(n) # {}
        /\ (pc = "failed" /\ err = NoNeighbour) => SharedLayers(next_net) = {}
        /\ (pc = "match" /\ Matched # {}) => metal_layer \in SharedLayers(next_net - 1)

C10_Witness ==
    /\ mode = "accurate"
    /\ pc = "failed"
    /\ err = NoNeighbour
    /\ Len(stress_target_nets) = 3
    /\ next_net = 2
    /\ Len(stress_target_nets[2].routing_points) > 0
    /\ SharedLayers(1) # {}

\* Relaxed mode looks at the first RoutingPoint of each net only.
Routed(n) == Len(stress_target_nets[n].routing_points) > 0
FirstLayer(n) == stress_target_nets[n].routing_points[1].metal_layer
FirstAnchor(n) == XY(stress_target_nets[n].routing_points[1].starting_point)

\* The other nets whose first RoutingPoint is on the layer of n's first one.
Candidates(n) ==
    {o \in DOMAIN stress_target_nets \ {n} :
        Routed(o) /\ FirstLayer(o) = FirstLayer(n)}

\* C11: in relaxed mode the net returned for a target that has another net
\* with its first RoutingPoint on the layer of the target's first
\* RoutingPoint is one of those nets, its first anchor is at the minimum
\* distance from the target's first anchor among them, and the layer
\* returned is that shared layer.
C11_RelaxedNearestFirstAnchor ==
    (mode = "relaxed" /\ pc = "match" /\ Matched # {}) =>
        LET n == next_net - 1
        IN Candidates(n) # {} =>
              /\ closest_net \in Candidates(n)
              /\ metal_layer = FirstLayer(n)
              /\ \A o \in Candidates(n) :
                    Dist2(FirstAnchor(n), FirstAnchor(closest_net))
                        <= Dist2(FirstAnchor(n), FirstAnchor(o))

\* Two candidates at different distances; a point that is not a first
\* anchor (the end of the target's strip) is nearer to the net not chosen.
C11_Witness ==
    /\ mode = "relaxed"
    /\ pc = "match"
    /\ next_net = 2
    /\ Cardinality(Candidates(1)) = 2
    /\ closest_net = 3
    /\ Dist2(FirstAnchor(1), FirstAnchor(3)) < Dist2(FirstAnchor(1), FirstAnchor(2))
    /\ \E q \in PointsOn(1, "metal1"), b \in PointsOn(2, "metal1") :
          Dist2(q, b) < Dist2(FirstAnchor(1), FirstAnchor(3))

\* C12: in relaxed mode a net with a first RoutingPoint, for which no other
\* net has its first RoutingPoint on the same layer, is matched without an
\* error: it is paired with itself and tagged with that layer.
C12_RelaxedLonelyPairsWithItself ==
    (mode = "relaxed" /\ pc \in {"match", "failed", "done"}) =>
        \A n \in DOMAIN stress_target_nets :
            (Routed(n) /\ Candidates(n) = {}) =>
                /\ ~(pc = "failed" /\ next_net = n)
                /\ (pc = "match" /\ next_net = n + 1) =>
                      closest_net = n /\ metal_layer = FirstLayer(n)
                /\ n \in Matched =>
                      Emitted(Line(stress_target_nets[n], stress_target_nets[n],
                                   FirstLayer(n)))

\* The net a line of the pair list was produced for: the one named in its
\* first field (0 if the line is not a record of the filtered nets).
Owner(line) ==
    LET owners == {n \in DOMAIN stress_target_nets :
                      \E o \in DOMAIN stress_target_nets, l \in Layers :
                          line = Line(stress_target_nets[n],
                                      stress_target_nets[o], l)}
    IN IF owners = {} THEN 0 ELSE CHOOSE n \in owners : TRUE

HasSubstring(needle, hay) ==
    \E i \in 0..Len(hay), j \in 1..(Len(hay) + 1) :
        SubSeq(hay, 1, i) \o needle \o SubSeq(hay, j, Len(hay)) = hay

\* Positions in the parsed list of the nets whose name contains the unit.
Kept == {i \in DOMAIN nets : HasSubstring(unit, get_name(nets[i]))}

\* The k-th smallest element of a set of numbers.
Nth(S, k) == CHOOSE i \in S : Cardinality({j \in S : j < i}) = k - 1

\* C14: once the filter has run, the filtered list is the parsed list
\* restricted to the nets whose name contains the functional unit at some
\* position: the same nets, in the same relative order, and nothing else.
C14_FilterKeepsMatchingNetsInOrder ==
    pc \in {"index", "match", "done", "failed"} =>
        /\ Len(stress_target_nets) = Cardinality(Kept)
        /\ \A k \in DOMAIN stress_target_nets :
              stress_target_nets[k] = nets[Nth(Kept, k)]

\* The unit occurs inside the name of the second of three nets only.
C14_Witness ==
    /\ pc = "match"
    /\ unit = <<"b">>
    /\ Len(nets) = 3
    /\ Kept = {2}
    /\ stress_target_nets = <<nets[2]>>
    /\ get_name(nets[2]) = <<"u", "b">>

\* The NETS section was isolated and parsed, and the filter has run.
Filtered ==
    /\ pc \in {"index", "match", "done", "failed"}
    /\ data.read /\ data.text = <<Statements>>

NoMatch == "AssertionError: Unable to extract nets of unit"

\* C15: when no parsed net name contains the functional unit, the run has
\* failed with the "unable to extract nets" error as soon as the filter has
\* run: no index was built, no net was matched, and no pair or output line
\* exists.
C15_NoMatchIsFatal ==
    (Filtered /\ Kept = {}) =>
        /\ pc = "failed"
        /\ err = NoMatch
        /\ ~has_trees
        /\ layer_mapping = <<>>
        /\ closest_net = 0
        /\ neighbouring_nets = <<>>
        /\ output = <<>>

C15_Witness ==
    /\ pc = "failed"
    /\ err = NoMatch
    /\ unit = <<"x">>
    /\ Len(nets) = 3
    /\ \A i \in DOMAIN nets : Len(nets[i].routing_points) > 0

\* The text holds "NETS <count> ;" and, somewhere after it, "END NETS".
HasDelimiterPair(text) ==
    \E i \in DOMAIN text, j \in DOMAIN text :
        /\ i + 2 < j
        /\ text[i] = "NETS"
        /\ text[i + 1] \in {"0", "1", "2", "3", "4", "5", "6", "7", "8", "9"}
        /\ text[i + 2] = ";"
        /\ text[j] = "END NETS"

InvalidFile == "ValueError: Invalid input file"

\* C16: when the text read from the file holds no "NETS <count> ;" ...
\* "END NETS" pair, the run has failed with the invalid-file error as soon
\* as the section was looked for, and the parser was never given any of the
\* text: nothing was isolated, parsed, filtered or written.
C16_NoNetsSectionIsFatal ==
    (data.read /\ pc # "isolate" /\ ~HasDelimiterPair(def_file)) =>
        /\ pc = "failed"
        /\ err = InvalidFile
        /\ data.text = def_file
        /\ nets = <<>>
        /\ stress_target_nets = <<>>
        /\ neighbouring_nets = <<>>
        /\ output = <<>>

\* The file opens the section and holds three net statements, but the
\* literal END NETS is missing.
C16_Witness ==
    /\ pc = "failed"
    /\ err = InvalidFile
    /\ Len(def_body) = 3
    /\ \E i \in DOMAIN def_file :
          /\ i + 3 <= Len(def_file)
          /\ SubSeq(def_file, i, i + 3) = <<"NETS", "3", ";", Statements>>
    /\ \A j \in DOMAIN def_file : def_file[j] # "END NETS"

\* The Points of the filtered nets that are tagged with a layer: net n,
\* RoutingPoint e of it, Point p of the RoutingPoint's points list.
PointsTagged(layer) ==
    {t \in UNION {UNION {{<<n, e, p>> :
                            p \in DOMAIN stress_target_nets[n].routing_points[e].points} :
                        e \in DOMAIN stress_target_nets[n].routing_points} :
                  n \in DOMAIN stress_target_nets} :
        stress_target_nets[t[1]].routing_points[t[2]].metal_layer = layer}

\* Net-iteration order, then RoutingPoint order, then order in the points list.
Before(s, t) ==
    \/ s[1] < t[1]
    \/ s[1] = t[1] /\ s[2] < t[2]
    \/ s[1] = t[1] /\ s[2] = t[2] /\ s[3] < t[3]

Rank(t, layer) == 1 + Cardinality({s \in PointsTagged(layer) : Before(s, t)})

\* C18: in accurate mode, once the index is built, the list of a layer holds
\* one entry (owning net, x, y) per Point of each RoutingPoint tagged with
\* that layer, in net, RoutingPoint and point order, and nothing else; a
\* layer without a point has no list; the net returned by a query owns an
\* entry of the returned layer's list.
C18_IndexHoldsLayerPoints ==
    (mode = "accurate" /\ has_trees) =>
        /\ DOMAIN layer_mapping = {l \in Layers : PointsTagged(l) # {}}
        /\ \A l \in DOMAIN layer_mapping :
              /\ Len(layer_mapping[l]) = Cardinality(PointsTagged(l))
              /\ \A t \in PointsTagged(l) :
                    LET q == stress_target_nets[t[1]].routing_points[t[2]].points[t[3]]
                    IN layer_mapping[l][Rank(t, l)] =
                          [net |-> t[1], x |-> q.x.int, y |-> q.y.int]
        /\ (pc = "match" /\ Matched # {}) =>
              \E i \in DOMAIN layer_mapping[metal_layer] :
                  layer_mapping[metal_layer][i].net = closest_net

\* The second net has a strip on metal1 and a via on metal2, the first a
\* via on metal2 only.
C18_Witness ==
    /\ mode = "accurate"
    /\ has_trees
    /\ Len(stress_target_nets) = 3
    /\ DOMAIN layer_mapping = {"metal1", "metal2"}
    /\ Len(layer_mapping["metal1"]) = 4
    /\ layer_mapping["metal2"] =
          <<[net |-> 1, x |-> 0, y |-> 4], [net |-> 2, x |-> 0, y |-> 0]>>
    /\ layer_mapping["metal1"][1].net = 2
    /\ layer_mapping["metal1"][3].net = 3

\* What the matcher of the mode returns for net n, computed from the nets
\* and the index as they are in the current state.
MatchAgain(n, tie) ==
    IF mode = "relaxed"
    THEN find_minimum_distance_for_starting_point(stress_target_nets, n)
    ELSE find_minimum_distance_across_layers(stress_target_nets, n,
                                             layer_mapping, mode = "insane", tie)

\* The pass of main() over results that are already there: results[n] is
\* the (net, layer) found for net n; the pass takes them in net-iteration
\* order and appends or skips each as main() does.
RECURSIVE DedupInOrder(_, _, _)
DedupInOrder(results, n, list) ==
    IF n > Len(results) THEN list
    ELSE LET net == stress_target_nets[n]
             closest == stress_target_nets[results[n].net]
         IN DedupInOrder(results, n + 1,
                IF reversed_key(get_name(net), get_name(closest)) \in Range(list)
                THEN list
                ELSE Append(list, Line(net, closest, results[n].layer)))

WalkStart == XY(walk_element.points[1])
WalkEnd == XY(walk_element.points[Len(walk_element.points)])

\* The points the walk yielded between the first and the last one.
Intermediate == {walked[i] : i \in 2..(Len(walked) - 1)}

\* C17 as stated: for a RoutingPoint with two points the walk yields the
\* start first and the end last, and every point in between is at a
\* distance from the start that is below the length of the segment; for a
\* RoutingPoint with one point it yields that point only.
C17_WalkEndsAtEndpoint ==
    walked # <<>> =>
        IF Len(walk_element.points) = 1 THEN walked = <<WalkStart>>
        ELSE /\ Len(walked) >= 2
             /\ walked[1] = WalkStart
             /\ walked[Len(walked)] = WalkEnd
             /\ \A q \in Intermediate :
                   Dist2(WalkStart, q) < Dist2(WalkStart, WalkEnd)

\* Number of steps of the walk that stay below the length of the segment.
StepsBelow(L2) ==
    Cardinality({k \in 1..L2 : (k * WalkStep) * (k * WalkStep) < L2})

Between(a, x, b) == (a <= x /\ x <= b) \/ (b <= x /\ x <= a)

\* C17, amended: the start is first and the end is last; in between there is
\* one point for every multiple of the step below the length of the
\* segment, each inside the bounding box of the segment and therefore never
\* farther from the start than the end is; such a point can be the end point
\* itself.  A RoutingPoint with one point yields that point only.
C17_WalkStaysWithinSegment ==
    walked # <<>> =>
        IF Len(walk_element.points) = 1 THEN walked = <<WalkStart>>
        ELSE /\ walked[1] = WalkStart
             /\ walked[Len(walked)] = WalkEnd
             /\ Len(walked) = 2 + StepsBelow(Dist2(WalkStart, WalkEnd))
             /\ \A q \in Intermediate :
                   /\ Between(WalkStart[1], q[1], WalkEnd[1])
                   /\ Between(WalkStart[2], q[2], WalkEnd[2])
                   /\ Dist2(WalkStart, q) <= Dist2(WalkStart, WalkEnd)

\* (8,8) -> (0,0): the step at distance 10 stands at (0.93, 0.93) and is
\* yielded as (0,0), the end point, before the end point itself.
C17_Witness ==
    /\ WalkStart = <<8, 8>>
    /\ WalkEnd = <<0, 0>>
    /\ walked = <<<<8, 8>>, <<0, 0>>, <<0, 0>>>>

(***************************************************************************)
(* Claims about the grammar, under SpecParse.                              *)
(***************************************************************************)
\* The fixed order of the clauses of a net statement, after the header.
FixedOrder ==
    <<"+ SHIELDNET", "+ VPIN", "+ XTALK", "+ NONDEFAULTRULE", "+ ROUTED",
      "+ SOURCE", "+ FIXEDBUMP", "+ FREQUENCY", "+ ORIGINAL", "+ USE",
      "+ PATTERN", "+ ESTCAP", "+ WEIGHT", "+ PROPERTY">>

Place(keyword) == CHOOSE i \in DOMAIN FixedOrder : FixedOrder[i] = keyword

MayRepeat == {"+ SHIELDNET", "+ VPIN", "+ ROUTED", "+ PROPERTY"}

\* The clauses of a written statement follow the fixed order.
InFixedOrder(w) ==
    \A i \in DOMAIN w.clauses, j \in DOMAIN w.clauses :
        i < j =>
            \/ Place(w.clauses[i]) < Place(w.clauses[j])
            \/ w.clauses[i] = w.clauses[j] /\ w.clauses[i] \in MayRepeat

WellFormed(w) == InFixedOrder(w) /\ w.terminated

\* C20: when a written statement has a clause out of the fixed order or
\* lacks its terminating ";", the parser rejects the text with a parse
\* error: no Net comes out of it.
C20_MalformedStatementRejected ==
    (parse_result # <<>> /\ \E i \in DOMAIN source : ~WellFormed(source[i])) =>
        ~parse_result.ok


(***************************************************************************)
(* Claims about the query loop of find_minimum_distance_across_layers,     *)
(* under SpecQuery.                                                        *)
(***************************************************************************)
Population == Len(q_mapping[QLayer])

\* the name of the net that owns the entry at a position tree.query returned
OwnerName(index) == get_name(q_nets[q_mapping[QLayer][index + 1].net])

\* the results hold a point of a net other than the target
Foreign(results) ==
    \E r \in DOMAIN results : OwnerName(results[r]) # get_name(q_nets[q_net])

\* the step is a query after which the loop of the query point is left
LastQuery == q_pc = "while" /\ q_pc' = "for point"

\* the step is a query after which the loop queries again
Requery == q_pc = "while" /\ q_pc' = "while"

\* C21: in accurate/insane mode the query of a query point is left only when
\* its results hold a point of another net or its size is the population of
\* the layer: no query point stops below the population with nothing but
\* points of the target net in its results.
C21_QueryGrowsUntilCrossNet ==
    [][LastQuery => (Foreign(q_indices') \/ q_size = Population)]_vars

\* the step takes the next query point and sets the size of its first query
FirstSize == q_pc = "for point" /\ q_pc' = "while"

\* C22 as stated: the query size of a query point starts at
\* min(100, population) and every further query of the point, made after a
\* query without a point of another net, has twice the size of the one
\* before, capped at the population.
C22_QuerySizeDoubles ==
    [][/\ FirstSize => q_size' = Min(100, Population)
       /\ Requery => /\ ~Foreign(q_indices')
                     /\ q_size' = Min(2 * q_size, Population)]_vars

\* C22, amended: the query size of a query point starts at
\* min(100, population) and every further query of the point, made only
\* after a query without a point of another net, has the size of the one
\* before plus 100, capped at the population.
C22_QuerySizeGrowsByHundred ==
    [][/\ FirstSize => q_size' = Min(100, Population)
       /\ Requery => /\ ~Foreign(q_indices')
                     /\ q_size' = Min(q_size + 100, Population)]_vars

\* the third query of a point: 300 after 100 and 200, on a layer of more
\* than 300 points
C22_Witness ==
    /\ q_pc = "while"
    /\ q_size = 300
    /\ Population > 300
    /\ q_best.index = NoIndex
    /\ Len(q_indices) = 200

\* squared distance of the query point to the entry at a returned position
ResultDistance(index) ==
    Dist2(QPoints[q_point],
          <<q_mapping[QLayer][index + 1].x, q_mapping[QLayer][index + 1].y>>)

\* the places in the results that hold a point of another net
CrossPlaces(results) ==
    {r \in DOMAIN results : OwnerName(results[r]) # get_name(q_nets[q_net])}

\* the first place, in the order of the results, among the places of another
\* net at the smallest distance
FirstNearest(results) ==
    LET cross == CrossPlaces(results)
    IN CHOOSE r \in cross :
          /\ \A o \in cross :
                ResultDistance(results[r]) <= ResultDistance(results[o])
          /\ \A o \in cross :
                ResultDistance(results[o]) = ResultDistance(results[r]) => r <= o

\* C24: the minimum kept over the call changes only in a query, and only to
\* a point of another net that is strictly nearer than the minimum kept so
\* far; among the results of the query at that smallest distance it is the
\* one that comes first.  A candidate found later at an equal distance, in
\* the same query, for a later query point or a later RoutingPoint, never
\* replaces it.
C24_FirstFoundWinsTies ==
    [][/\ q_pc # "while" => q_best' = q_best
       /\ q_pc = "while" =>
             LET results == q_indices'
                 nearer ==
                    /\ CrossPlaces(results) # {}
                    /\ \/ q_best.index = NoIndex
                       \/ ResultDistance(results[FirstNearest(results)])
                             < q_best.minimum_distance
             IN IF nearer
                THEN q_best' =
                        [minimum_distance |->
                            ResultDistance(results[FirstNearest(results)]),
                         index |-> results[FirstNearest(results)],
                         layer |-> QLayer]
                ELSE q_best' = q_best]_vars

\* two points of two other nets at the distance of the kept minimum in one
\* query: the first of them is the one kept
C24_Witness ==
    /\ q_pc = "for point"
    /\ q_element <= Len(q_nets[q_net].routing_points)
    /\ q_point >= 1
    /\ \E r1, r2 \in CrossPlaces(q_indices) :
          /\ r1 < r2
          /\ OwnerName(q_indices[r1]) # OwnerName(q_indices[r2])
          /\ ResultDistance(q_indices[r1]) = q_best.minimum_distance
          /\ ResultDistance(q_indices[r2]) = q_best.minimum_distance
          /\ q_best.index = q_indices[r1]

(***************************************************************************)
(* More claims about main() and the matchers, under Spec.                  *)
(***************************************************************************)
\* the layers that carry a RoutingPoint of net n
LayersOf(n) ==
    {stress_target_nets[n].routing_points[e].metal_layer :
        e \in DOMAIN stress_target_nets[n].routing_points}

\* the nets that own an entry of the index of a layer
IndexedOn(layer) ==
    IF layer \in DOMAIN layer_mapping
    THEN {layer_mapping[layer][i].net : i \in DOMAIN layer_mapping[layer]}
    ELSE {}

\* C23: in accurate and insane mode the net returned for a target is never
\* the target: it is another net of the list, under another name, and the
\* returned layer carries a RoutingPoint of the target and holds an indexed
\* point of the returned net.
C23_NeighbourIsAnotherNet ==
    (mode # "relaxed" /\ has_trees /\ Matched # {}) =>
        LET n == next_net - 1
        IN /\ closest_net \in DOMAIN stress_target_nets
           /\ closest_net # n
           /\ get_name(stress_target_nets[closest_net])
                 # get_name(stress_target_nets[n])
           /\ metal_layer \in LayersOf(n)
           /\ closest_net \in IndexedOn(metal_layer)

\* a target with routing points on metal1, where it is alone, and on metal2,
\* where the returned net is
C23_Witness ==
    /\ mode = "insane"
    /\ has_trees
    /\ pc = "match"
    /\ next_net = 2
    /\ closest_net = 2
    /\ metal_layer = "metal2"
    /\ LayersOf(1) = {"metal1", "metal2"}
    /\ IndexedOn("metal1") = {1}
    /\ 1 \in IndexedOn("metal2")

\* the filtered nets whose name is the first field of a line
FirstFieldNets(line) ==
    {n \in DOMAIN stress_target_nets :
        \E o \in DOMAIN stress_target_nets, l \in Layers :
            line = Line(stress_target_nets[n], stress_target_nets[o], l)}

\* C27: the pair list, and the file written from it, never hold more lines
\* than nets were matched, so never more than there are filtered nets; the
\* first field of every line is the name of a filtered net that was matched,
\* and no two lines have the same first field.
C27_OneLinePerNet ==
    /\ Len(neighbouring_nets) <= Cardinality(Matched)
    /\ Cardinality(Matched) <= Len(stress_target_nets)
    /\ Len(output) <= Len(neighbouring_nets)
    /\ \A i \in DOMAIN neighbouring_nets :
          /\ FirstFieldNets(neighbouring_nets[i]) # {}
          /\ FirstFieldNets(neighbouring_nets[i]) \subseteq Matched
    /\ \A i \in DOMAIN neighbouring_nets, j \in DOMAIN neighbouring_nets :
          i # j => FirstFieldNets(neighbouring_nets[i])
                      \cap FirstFieldNets(neighbouring_nets[j]) = {}
    /\ \A i \in DOMAIN output : output[i] = neighbouring_nets[i] \o "\n"

\* three nets, two of them with the same neighbour: three lines, one each
C27_Witness ==
    /\ pc = "done"
    /\ Len(stress_target_nets) = 3
    /\ Len(output) = 3
    /\ \E l \in Layers :
          /\ Emitted(Line(stress_target_nets[1], stress_target_nets[2], l))
          /\ Emitted(Line(stress_target_nets[3], stress_target_nets[2], l))

\* C28: the output is written in one go after every filtered net has been
\* matched: lines exist only in a run that is done without error, past the
\* last net, with one line per collected pair; a run that failed, at any
\* stage and also after some nets were matched, has written no line.
C28_OutputOnlyAfterAllMatched ==
    /\ output # <<>> =>
          /\ pc = "done"
          /\ err = ""
          /\ next_net > Len(stress_target_nets)
          /\ Len(output) = Len(neighbouring_nets)
    /\ pc # "done" => output = <<>>

\* A run that failed in the matching loop after it had collected a pair.
C28_Witness ==
    /\ pc = "failed"
    /\ next_net > 1
    /\ neighbouring_nets # <<>>
    /\ output = <<>>


\* A filtered net has a chain of three or more Points.
LongChain ==
    \E n \in DOMAIN stress_target_nets :
        \E e \in DOMAIN stress_target_nets[n].routing_points :
            Len(stress_target_nets[n].routing_points[e].points) >= 3

TooManyPoints == "AssertionError: Element has >2 points"

\* C29: in accurate and insane mode a filtered net with a chain of three or
\* more Points makes the index builder fail on its assertion: once the
\* builder has run the run is failed with that error, no index exists and no
\* pair or line was produced; without such a chain the builder does not raise
\* it. In relaxed mode the builder is never run: the error does not occur
\* and no index exists.
C29_LongChainFailsIndexBuilder ==
    /\ (mode # "relaxed" /\ LongChain /\ pc # "index") =>
          /\ pc = "failed"
          /\ err = TooManyPoints
          /\ ~has_trees
          /\ neighbouring_nets = <<>>
          /\ output = <<>>
    /\ err = TooManyPoints => (mode # "relaxed" /\ LongChain)
    /\ mode = "relaxed" => ~has_trees

\* An accurate or insane run that the builder aborted.
C29_Witness ==
    /\ mode # "relaxed"
    /\ LongChain
    /\ pc = "failed"
    /\ err = TooManyPoints


(***************************************************************************)
(* Termination of the query loop, under SpecQueryFair.                     *)
(***************************************************************************)

\* C30: the query loop of every query point terminates. A further query of
\* the same point has a strictly larger size; the size of a query is at
\* least 1 and at most the population of the layer; a query whose size is
\* the population leaves the loop; and every loop that was entered is left.
C30_QueryLoopTerminates ==
    /\ [][/\ Requery => (q_size' > q_size /\ q_size' <= Population)
          /\ q_pc = "while" => (1 <= q_size /\ q_size <= Population)
          /\ (q_pc = "while" /\ q_size = Population) => q_pc' = "for point"]_vars
    /\ (q_pc = "while") ~> (q_pc = "for point")
    /\ <>(q_pc \in {"returned", "raised"})

\* A loop left by a query of the whole population, after its size had grown,
\* with no point of another net found.
C30_Witness ==
    /\ q_pc = "for point"
    /\ q_point > 0
    /\ q_size = Population
    /\ q_size > QueryStart
    /\ Len(q_indices) = Population
    /\ q_best.index = NoIndex

====
